---- MODULE Spec2Model ----
(***************************************************************************)
(* A model of process_pressure_data.py: the line-oriented parser of the    *)
(* structured .FMT/.LBL notation (parse_structured_file), the column       *)
(* lookup (get_col_info), the label extractor (get_lbl_info) and the row   *)
(* loop of main/compose_custom_rows.                                       *)
(*                                                                         *)
(* Text is a sequence of symbols.  A symbol is one character (" ", "=",    *)
(* a quote, a parenthesis, a letter, a newline) or one of the words        *)
(* "OBJECT", "GROUP", "END_", which stand for that run of letters and      *)
(* neither start nor end with whitespace or a delimiter.                   *)
(***************************************************************************)
EXTENDS Integers, Sequences, FiniteSets, TLC

(* ---------------------------------------------------------------------- *)
(* Bounds of the model                                                     *)
(* ---------------------------------------------------------------------- *)
MaxLines == 7
MaxValueLines == 4
MaxFiles == 3
MaxRows == 2
MaxLimit == 4
MaxTargets == 2
MaxColumns == 3
MaxTargetCols == 2

(* ---------------------------------------------------------------------- *)
(* Program constants                                                       *)
(* ---------------------------------------------------------------------- *)
OBJ_TOKENS == {<<"OBJECT">>, <<"GROUP">>}
MULTILINE_TOKENS == << <<"\"", "\"">>, <<"(", ")">> >>
SEP == <<" ", "=", " ">>
DEFAULT_MAX_ROW_COUNT == -1
COL_DATA_TYPE_TO_PYTHON_TYPE ==
    (<<"ASCII_REAL">> :> "float") @@ (<<"ASCII_INTEGER">> :> "int")
Whitespace == {" ", "\t", "\n"}

(* ---------------------------------------------------------------------- *)
(* Python's str operations, on sequences of symbols                        *)
(* ---------------------------------------------------------------------- *)
RECURSIVE LStripChars(_, _)
LStripChars(s, cs) ==
    IF s # <<>> /\ Head(s) \in cs THEN LStripChars(Tail(s), cs) ELSE s

RECURSIVE RStripChars(_, _)
RStripChars(s, cs) ==
    IF s # <<>> /\ s[Len(s)] \in cs
    THEN RStripChars(SubSeq(s, 1, Len(s) - 1), cs)
    ELSE s

StripChars(s, cs) == RStripChars(LStripChars(s, cs), cs)

Strip(s) == StripChars(s, Whitespace)

StartsWith(s, p) == Len(p) <= Len(s) /\ SubSeq(s, 1, Len(p)) = p

\* str.find: the least index at which sub occurs in s, 0 when it does not
Find(s, sub) ==
    LET hits == {i \in 1..(Len(s) - Len(sub) + 1) : SubSeq(s, i, i + Len(sub) - 1) = sub}
    IN  IF hits = {} THEN 0 ELSE CHOOSE i \in hits : \A j \in hits : i <= j

Contains(s, sub) == Find(s, sub) # 0

\* str.split(sep): every maximal piece between non-overlapping occurrences
\* of sep, scanned left to right
RECURSIVE Split(_, _)
Split(s, sep) ==
    LET i == Find(s, sep)
    IN  IF i = 0 THEN <<s>>
        ELSE <<SubSeq(s, 1, i - 1)>> \o Split(SubSeq(s, i + Len(sep), Len(s)), sep)

RECURSIVE Concat(_)
Concat(ss) == IF ss = <<>> THEN <<>> ELSE Head(ss) \o Concat(Tail(ss))

(* ---------------------------------------------------------------------- *)
(* Python values: str, dict and list, told apart as isinstance does        *)
(* ---------------------------------------------------------------------- *)
Str(s) == [t |-> "str", v |-> s]
Dict(d) == [t |-> "dict", v |-> d]
List(l) == [t |-> "list", v |-> l]
EmptyDict == [k \in {} |-> Str(<<>>)]

\* d[k] = v
Put(d, k, v) == [x \in (DOMAIN d) \cup {k} |-> IF x = k THEN v ELSE d[x]]

(* ---------------------------------------------------------------------- *)
(* The lines a file may hold.  A file is of one of two families: one is   *)
(* long and made of section lines, the other is short and draws on every  *)
(* kind of value line.                                                    *)
(* ---------------------------------------------------------------------- *)
SectionLines == {
    <<"OBJECT", " ", "=", " ", "K", "\n">>,
    <<"GROUP", " ", "=", " ", "K", "\n">>,
    <<"END_", "OBJECT", "\n">>,
    <<"END_", "GROUP", "\n">>,
    <<" ", "A", " ", " ", "=", " ", " ", "1", " ", "\n">>,
    <<"K", " ", "=", " ", "2", "\n">>
}

ValueLines == SectionLines \cup {
    <<"A", " ", "=", " ", "\"", "x", "\n">>,
    <<"y", "\"", "\n">>,
    <<"A", " ", "=", " ", "(", "x", "\n">>,
    <<"y", ")", "\n">>,
    <<"A", " ", "=", " ", "\"", "\n">>,
    <<"A", " ", "=", " ", "\"", "x", "\"", "\n">>,
    <<"A", " ", "=", " ", " ", "=", " ", "1", "\n">>,
    <<"A", " ", "=", " ", "1", " ", "=", " ", "2", "\n">>,
    <<"A", " ", "=", " ", "\"", "x", " ", "=", " ", "y", "\"", "\n">>,
    <<"END_", "OBJECT", " ", "=", " ", "K", "\n">>,
    <<"A", " ", "=", " ", "\n">>,
    <<"z", "\n">>,
    <<"\n">>
}

Families == {"sections", "values"}
LinesOf(f) == IF f = "sections" THEN SectionLines ELSE ValueLines
LimitOf(f) == IF f = "sections" THEN MaxLines ELSE MaxValueLines

(* ---------------------------------------------------------------------- *)
(* State of parse_structured_file                                          *)
(* ---------------------------------------------------------------------- *)
VARIABLES
    family,                 \* the family of the file being parsed
    structured_file_info,   \* the document under construction
    building_obj,
    obj_token,
    obj_key,
    current_obj,
    in_multiline,
    multiline_end_token,
    multiline_key,
    multiline_value,
    status,                 \* "reading", "returned" or "IndexError"
    nread,                  \* lines consumed so far
    \* history of the run, read by the properties only
    lastLine,               \* the raw line consumed last
    prev,                   \* the parser's state before that line
    mlOpen,                 \* the value that opened the latest multi-line value
    mlBody,                 \* the raw lines read for it since
    mlScope,                \* where it was opened: "top" or "obj"
    closed,                 \* key -> the section mappings closed under it, in order
    flat                    \* top-level keys written by key/value lines

codeVars == <<structured_file_info, building_obj, obj_token, obj_key, current_obj,
              in_multiline, multiline_end_token, multiline_key, multiline_value>>

historyVars == <<lastLine, prev, mlOpen, mlBody, mlScope, closed, flat>>

parserVars == <<family, codeVars, status, nread, historyVars>>

Snapshot ==
    [building |-> building_obj, multi |-> in_multiline, token |-> obj_token,
     info |-> structured_file_info, obj |-> current_obj, key |-> obj_key,
     mend |-> multiline_end_token, mkey |-> multiline_key,
     mvalue |-> multiline_value]

ParserStart ==
    /\ structured_file_info = EmptyDict
    /\ building_obj = FALSE
    /\ obj_token = <<>>
    /\ obj_key = <<>>
    /\ current_obj = EmptyDict
    /\ in_multiline = FALSE
    /\ multiline_end_token = ""
    /\ multiline_key = <<>>
    /\ multiline_value = <<>>
    /\ nread = 0
    /\ lastLine = <<>>
    /\ prev = Snapshot
    /\ mlOpen = <<>>
    /\ mlBody = <<>>
    /\ mlScope = "none"
    /\ closed = EmptyDict
    /\ flat = {}

ParserInit ==
    /\ family \in Families
    /\ status = "reading"
    /\ ParserStart

ParserIdle ==
    /\ family = "none"
    /\ status = "idle"
    /\ ParserStart

(* ---------------------------------------------------------------------- *)
(* parse_structured_file: one action per branch of the loop body           *)
(* ---------------------------------------------------------------------- *)
\* for line in f
Consume(line) ==
    /\ status = "reading"
    /\ nread < LimitOf(family)
    /\ line \in LinesOf(family)
    /\ nread' = nread + 1
    /\ lastLine' = line
    /\ prev' = Snapshot
    /\ UNCHANGED family

\* either pair's closing delimiter ends the value
IsClosingAnyPair(clean_line, end_token) ==
    /\ clean_line # <<>>
    /\ LET c == StripChars(clean_line, {"\n"})
       IN  \E i \in 1..Len(MULTILINE_TOKENS) : MULTILINE_TOKENS[i][2] = c[Len(c)]

\* clean_line and multiline_end_token == clean_line.strip('\n')[-1]
IsClosing(clean_line, end_token) ==
    /\ clean_line # <<>>
    /\ LET c == StripChars(clean_line, {"\n"}) IN end_token = c[Len(c)]

\* a separator slipped in between the pieces
AccumulateSpaced(value, clean_line) == value \o <<" ">> \o clean_line

\* multiline_value += clean_line
Accumulate(value, clean_line) == value \o clean_line

\* s[i] for an index the caller knows to be in range
At(s, i) == IF i \in DOMAIN s THEN s[i] ELSE ""

\* key = parsed_line[0].strip()
KeyOf(parsed_line) == Strip(parsed_line[1])

\* the second piece taken as it stands
ValueOfUnstripped(parsed_line) == parsed_line[2]

\* value = parsed_line[1].strip()
ValueOf(parsed_line) == Strip(parsed_line[2])

\* value[0] == begin_token and (value[-1] != end_token or len(value) == 1)
OpensPair(value, pair) ==
    /\ At(value, 1) = pair[1]
    /\ (At(value, Len(value)) # pair[2] \/ Len(value) = 1)

\* the index of the pair of MULTILINE_TOKENS at which the loop breaks,
\* 0 when it runs to its end; value is not empty
MultilinePair(value) ==
    LET hits == {i \in 1..Len(MULTILINE_TOKENS) : OpensPair(value, MULTILINE_TOKENS[i])}
    IN  IF hits = {} THEN 0 ELSE CHOOSE i \in hits : \A j \in hits : i <= j

\* the new section put in front of the earlier ones
CommitObjInFront(info, key, obj) ==
    IF key \in DOMAIN info
    THEN IF info[key].t # "list"
         THEN Put(info, key, List(<<Dict(obj), info[key]>>))
         ELSE Put(info, key, List(<<Dict(obj)>> \o info[key].v))
    ELSE Put(info, key, Dict(obj))

\* the END_ branch: list promotion when a section closes under key
CommitObj(info, key, obj) ==
    IF key \in DOMAIN info
    THEN IF info[key].t # "list"
         THEN Put(info, key, List(Append(<<info[key]>>, Dict(obj))))
         ELSE Put(info, key, List(Append(info[key].v, Dict(obj))))
    ELSE Put(info, key, Dict(obj))

\* only the absent second piece is noticed
ValueMissingWhenAbsent(parsed_line) == Len(parsed_line) < 2

\* parsed_line[1] raises when there is no second piece, value[0] when
\* the second piece is blank
ValueMissing(parsed_line) ==
    Len(parsed_line) < 2 \/ ValueOf(parsed_line) = <<>>

\* the value committed to the document whatever the scope
ObjMultilineCommitTop(info, obj, key, value) == <<Put(info, key, Str(value)), obj>>

\* where a closing line commits the value: <<document, section mapping>>
ObjMultilineCommit(info, obj, key, value) == <<info, Put(obj, key, Str(value))>>

\* a value committed under a key the document holds joins the old value
\* in a list
TopMultilineCommitPromoting(info, obj, key, value) ==
    <<IF key \in DOMAIN info
      THEN Put(info, key, List(<<info[key], Str(value)>>))
      ELSE Put(info, key, Str(value)), obj>>

TopMultilineCommit(info, obj, key, value) == <<Put(info, key, Str(value)), obj>>

\* the section's END line honoured in the middle of a multi-line value
ObjMultilineStructural(line) ==
    LET clean_line == Strip(line) IN
    /\ Consume(line) /\ building_obj /\ in_multiline
    /\ multiline_value' = Accumulate(multiline_value, clean_line)
    /\ building_obj' = ~StartsWith(clean_line, <<"END_">> \o obj_token)
    /\ IF IsClosing(clean_line, multiline_end_token)
       THEN /\ in_multiline' = FALSE
            /\ current_obj' = Put(current_obj, multiline_key, Str(multiline_value'))
       ELSE UNCHANGED <<in_multiline, current_obj>>
    /\ mlBody' = Append(mlBody, line)
    /\ UNCHANGED <<structured_file_info, obj_token, obj_key,
                   multiline_end_token, multiline_key, status,
                   mlOpen, mlScope, closed, flat>>

ObjMultiline(line) ==
    LET clean_line == Strip(line) IN
    /\ Consume(line) /\ building_obj /\ in_multiline
    /\ multiline_value' = Accumulate(multiline_value, clean_line)
    /\ IF IsClosing(clean_line, multiline_end_token)
       THEN LET c == ObjMultilineCommit(structured_file_info, current_obj,
                                        multiline_key, multiline_value')
            IN  /\ in_multiline' = FALSE
                /\ structured_file_info' = c[1]
                /\ current_obj' = c[2]
       ELSE UNCHANGED <<in_multiline, structured_file_info, current_obj>>
    /\ mlBody' = Append(mlBody, line)
    /\ UNCHANGED <<building_obj, obj_token, obj_key,
                   multiline_end_token, multiline_key, status,
                   mlOpen, mlScope, closed, flat>>

ObjEnd(line) ==
    LET clean_line == Strip(line) IN
    /\ Consume(line) /\ building_obj /\ ~in_multiline
    /\ StartsWith(clean_line, <<"END_">> \o obj_token)
    /\ structured_file_info' = CommitObj(structured_file_info, obj_key, current_obj)
    /\ building_obj' = FALSE
    /\ obj_token' = <<>>
    /\ current_obj' = EmptyDict
    /\ closed' = Put(closed, obj_key,
                     IF obj_key \in DOMAIN closed
                     THEN Append(closed[obj_key], current_obj)
                     ELSE <<current_obj>>)
    /\ UNCHANGED <<obj_key, in_multiline, multiline_end_token, multiline_key,
                   multiline_value, status, mlOpen, mlBody, mlScope, flat>>

ObjKeyValue(line) ==
    LET clean_line == Strip(line)
        parsed_line == Split(clean_line, SEP)
    IN
    /\ Consume(line) /\ building_obj /\ ~in_multiline
    /\ ~StartsWith(clean_line, <<"END_">> \o obj_token)
    /\ IF ValueMissing(parsed_line)
       THEN /\ status' = "IndexError"
            /\ UNCHANGED <<codeVars, mlOpen, mlBody, mlScope, closed, flat>>
       ELSE LET key == KeyOf(parsed_line)
                value == ValueOf(parsed_line)
                p == MultilinePair(value)
            IN  /\ IF p # 0
                   THEN /\ in_multiline' = TRUE
                        /\ multiline_end_token' = MULTILINE_TOKENS[p][2]
                        /\ multiline_key' = key
                        /\ multiline_value' = value
                        /\ mlOpen' = value
                        /\ mlBody' = <<>>
                        /\ mlScope' = "obj"
                        /\ UNCHANGED current_obj
                   ELSE /\ current_obj' = Put(current_obj, key, Str(StripChars(value, {"\n"})))
                        /\ UNCHANGED <<in_multiline, multiline_end_token,
                                       multiline_key, multiline_value,
                                       mlOpen, mlBody, mlScope>>
                /\ UNCHANGED <<structured_file_info, building_obj, obj_token,
                               obj_key, status, closed, flat>>

TopMultiline(line) ==
    LET clean_line == Strip(line) IN
    /\ Consume(line) /\ ~building_obj /\ in_multiline
    /\ multiline_value' = Accumulate(multiline_value, clean_line)
    /\ IF IsClosing(clean_line, multiline_end_token)
       THEN LET c == TopMultilineCommit(structured_file_info, current_obj,
                                        multiline_key, multiline_value')
            IN  /\ in_multiline' = FALSE
                /\ structured_file_info' = c[1]
                /\ current_obj' = c[2]
                /\ flat' = flat \cup {multiline_key}
       ELSE UNCHANGED <<in_multiline, structured_file_info, current_obj, flat>>
    /\ mlBody' = Append(mlBody, line)
    /\ UNCHANGED <<building_obj, obj_token, obj_key,
                   multiline_end_token, multiline_key, status,
                   mlOpen, mlScope, closed>>

TopKeyValue(line) ==
    LET clean_line == Strip(line)
        parsed_line == Split(clean_line, SEP)
        key == KeyOf(parsed_line)
        value == ValueOf(parsed_line)
    IN
    /\ Consume(line) /\ ~building_obj /\ ~in_multiline
    /\ Contains(clean_line, SEP)
    /\ IF key \in OBJ_TOKENS
       THEN /\ building_obj' = TRUE
            /\ obj_token' = key
            /\ obj_key' = value
            /\ UNCHANGED <<structured_file_info, current_obj, in_multiline,
                           multiline_end_token, multiline_key, multiline_value,
                           status, mlOpen, mlBody, mlScope, closed, flat>>
       ELSE IF ValueMissing(parsed_line)
       THEN /\ status' = "IndexError"
            /\ UNCHANGED <<codeVars, mlOpen, mlBody, mlScope, closed, flat>>
       ELSE LET p == MultilinePair(value)
            IN  /\ IF p # 0
                   THEN /\ in_multiline' = TRUE
                        /\ multiline_end_token' = MULTILINE_TOKENS[p][2]
                        /\ multiline_key' = key
                        /\ multiline_value' = value
                        /\ mlOpen' = value
                        /\ mlBody' = <<>>
                        /\ mlScope' = "top"
                        /\ UNCHANGED <<structured_file_info, flat>>
                   ELSE /\ structured_file_info' =
                               Put(structured_file_info, key, Str(StripChars(value, {"\n"})))
                        /\ flat' = flat \cup {key}
                        /\ UNCHANGED <<in_multiline, multiline_end_token,
                                       multiline_key, multiline_value,
                                       mlOpen, mlBody, mlScope>>
                /\ UNCHANGED <<building_obj, obj_token, obj_key, current_obj,
                               status, closed>>

\* a line without separator kept as a key without value
TopIgnoreStoring(line) ==
    LET clean_line == Strip(line) IN
    /\ Consume(line) /\ ~building_obj /\ ~in_multiline
    /\ ~Contains(clean_line, SEP)
    /\ structured_file_info' = Put(structured_file_info, clean_line, Str(<<>>))
    /\ UNCHANGED <<building_obj, obj_token, obj_key, current_obj, in_multiline,
                   multiline_end_token, multiline_key, multiline_value,
                   status, mlOpen, mlBody, mlScope, closed, flat>>

\* no branch of the loop body applies
TopIgnore(line) ==
    LET clean_line == Strip(line) IN
    /\ Consume(line) /\ ~building_obj /\ ~in_multiline
    /\ ~Contains(clean_line, SEP)
    /\ UNCHANGED <<codeVars, status, mlOpen, mlBody, mlScope, closed, flat>>

\* the end of the file: the loop ends and the document is returned
Return ==
    /\ status = "reading"
    /\ status' = "returned"
    /\ UNCHANGED <<family, codeVars, nread, historyVars>>




(* ---------------------------------------------------------------------- *)
(* main and compose_custom_rows: the loop over the tabular files and the   *)
(* loop over the rows of one file.  A tabular file is its number of rows.  *)
(* ---------------------------------------------------------------------- *)
VARIABLES
    maxRowCount,            \* args.maxRowCount
    tabFiles,               \* the tabular files the glob yields, in order
    remaining_row_count,
    header_is_written,
    fileIdx,                \* tabular files opened so far
    rowIdx,                 \* rows read from the file that is open
    written,                \* data rows written to the results file
    runpc,                  \* "main", "compose" or "done"
    writtenAtOpen           \* history: written when the latest file was opened

runVars == <<maxRowCount, tabFiles, remaining_row_count, header_is_written,
             fileIdx, rowIdx, written, runpc, writtenAtOpen>>

RECURSIVE SeqsUpTo(_, _)
SeqsUpTo(S, n) ==
    IF n = 0 THEN {<<>>}
    ELSE LET shorter == SeqsUpTo(S, n - 1)
         IN  shorter \cup {Append(q, x) : q \in shorter, x \in S}

RowLimits == {DEFAULT_MAX_ROW_COUNT - 1, DEFAULT_MAX_ROW_COUNT} \cup 0..MaxLimit

RunStart ==
    /\ remaining_row_count = maxRowCount
    /\ header_is_written = FALSE
    /\ fileIdx = 0
    /\ rowIdx = 0
    /\ written = 0
    /\ writtenAtOpen = 0

RunInit ==
    /\ maxRowCount \in RowLimits
    /\ tabFiles \in SeqsUpTo(0..MaxRows, MaxFiles)
    /\ runpc = "main"
    /\ RunStart

RunIdle ==
    /\ maxRowCount = DEFAULT_MAX_ROW_COUNT
    /\ tabFiles = <<>>
    /\ runpc = "idle"
    /\ RunStart

\* the rows are over once none remains to be written
StopsAtOrBelow(remaining) == remaining <= 0

\* if remaining_row_count == 0: return remaining_row_count
StopsAt(remaining) == remaining = 0

\* elif remaining_row_count > 0: remaining_row_count -= 1
Decrement(remaining) == IF remaining > 0 THEN remaining - 1 ELSE remaining

\* the loop over the files goes on regardless
NeverBreaks(remaining) == FALSE

\* if remaining_row_count == 0: break
MainBreaks(remaining) == remaining = 0

\* the body of main's loop up to the call of compose_custom_rows, which
\* opens the tabular file
MainNextFile ==
    /\ runpc = "main"
    /\ fileIdx < Len(tabFiles)
    /\ fileIdx' = fileIdx + 1
    /\ header_is_written' = TRUE
    /\ rowIdx' = 0
    /\ writtenAtOpen' = written
    /\ runpc' = "compose"
    /\ UNCHANGED <<maxRowCount, tabFiles, remaining_row_count, written>>

\* the glob is exhausted
MainEnd ==
    /\ runpc = "main"
    /\ fileIdx = Len(tabFiles)
    /\ runpc' = "done"
    /\ UNCHANGED <<maxRowCount, tabFiles, remaining_row_count, header_is_written,
                   fileIdx, rowIdx, written, writtenAtOpen>>

\* one row of the open file is read and written
ComposeRow ==
    /\ runpc = "compose"
    /\ rowIdx < tabFiles[fileIdx]
    /\ ~StopsAt(remaining_row_count)
    /\ rowIdx' = rowIdx + 1
    /\ remaining_row_count' = Decrement(remaining_row_count)
    /\ written' = written + 1
    /\ UNCHANGED <<maxRowCount, tabFiles, header_is_written, fileIdx, runpc,
                   writtenAtOpen>>

\* a row is read with nothing remaining: compose_custom_rows returns, and
\* main tests what it returned
ComposeStop ==
    /\ runpc = "compose"
    /\ rowIdx < tabFiles[fileIdx]
    /\ StopsAt(remaining_row_count)
    /\ rowIdx' = rowIdx + 1
    /\ runpc' = IF MainBreaks(remaining_row_count) THEN "done" ELSE "main"
    /\ UNCHANGED <<maxRowCount, tabFiles, remaining_row_count, header_is_written,
                   fileIdx, written, writtenAtOpen>>

\* the rows of the open file are over: compose_custom_rows returns, and
\* main tests what it returned
ComposeEnd ==
    /\ runpc = "compose"
    /\ rowIdx = tabFiles[fileIdx]
    /\ runpc' = IF MainBreaks(remaining_row_count) THEN "done" ELSE "main"
    /\ UNCHANGED <<maxRowCount, tabFiles, remaining_row_count, header_is_written,
                   fileIdx, rowIdx, written, writtenAtOpen>>


(* ---------------------------------------------------------------------- *)
(* get_lbl_info.  An element of a target spec is a str (a leaf name) or a  *)
(* dict, held as the sequence of its (key, nested spec) items in order;    *)
(* both carry their type, as the values of a document do.                  *)
(* ---------------------------------------------------------------------- *)
VARIABLES
    lbl_file_info,          \* the parsed document handed to get_lbl_info
    target_info,            \* the target spec
    target_results,         \* what get_lbl_info returned
    lblStatus               \* "called", "returned", "KeyError" or "TypeError"

lblVars == <<lbl_file_info, target_info, target_results, lblStatus>>

DictT(items) == [t |-> "dict", v |-> items]

S(c) == Str(<<c>>)

NameX == <<"X">>
NameY == <<"Y">>
NameV == <<"V">>
NameW == <<"W">>
NameG == <<"G">>
NameH == <<"H">>
NameF == <<"F">>

SectionH == Dict((NameX :> S("5")) @@ (NameV :> S("6")))
SectionG == Dict((NameX :> S("3")) @@ (NameW :> S("4")) @@ (NameH :> SectionH))
SectionF == Dict(NameY :> S("7"))

LblDocs == {
    Dict((NameX :> S("1")) @@ (NameY :> S("2")) @@ (NameG :> SectionG)
         @@ (NameF :> SectionF)),
    Dict((NameX :> S("1")) @@ (NameG :> Dict((NameX :> S("3")) @@ (NameH :> S("8"))))),
    Dict((NameX :> S("1")) @@ (NameY :> S("2"))
         @@ (NameG :> List(<<Dict(NameX :> S("3")), Dict(NameX :> S("9"))>>)))
}

\* {key: nested} and {key1: nested1, key2: nested2}
Under(key, nested) == DictT(<< <<key, nested>> >>)
Under2(key1, nested1, key2, nested2) == DictT(<< <<key1, nested1>>, <<key2, nested2>> >>)

LeafX == Str(NameX)
LeafY == Str(NameY)
LeafV == Str(NameV)
LeafW == Str(NameW)
LeafG == Str(NameG)

TargetElems == {
    LeafX,
    LeafY,
    LeafG,
    Under(NameG, <<LeafX>>),
    Under(NameG, <<LeafW, LeafX>>),
    Under(NameG, <<Under(NameH, <<LeafX>>)>>),
    Under(NameG, <<LeafX, Under(NameH, <<LeafX, LeafV>>)>>),
    Under2(NameG, <<LeafX>>, NameF, <<LeafY>>),
    Under(NameG, <<>>)
}

LblStart == target_results = EmptyDict

LblInit ==
    /\ lbl_file_info \in LblDocs
    /\ target_info \in SeqsUpTo(TargetElems, MaxTargets)
    /\ lblStatus = "called"
    /\ LblStart

LblIdle ==
    /\ lbl_file_info = Dict(EmptyDict)
    /\ target_info = <<>>
    /\ lblStatus = "idle"
    /\ LblStart

\* isinstance(target, dict)
IsDictTarget(target) == target.t = "dict"

Ok(res) == [err |-> "", res |-> res]
Raise(e) == [err |-> e, res |-> EmptyDict]

\* lbl_file_info[key]: a dict raises KeyError for a key it lacks, a str or
\* a list raises TypeError for an index that is a str
Subscript(info, key) ==
    IF info.t # "dict" THEN Raise("TypeError")
    ELSE IF key \notin DOMAIN info.v THEN Raise("KeyError")
    ELSE Ok(info.v[key])

\* the entries of the earlier results win
MergeKeepingFirst(a, b) ==
    [x \in (DOMAIN a) \cup (DOMAIN b) |-> IF x \in DOMAIN a THEN a[x] ELSE b[x]]

\* {**a, **b}
Merge(a, b) ==
    [x \in (DOMAIN a) \cup (DOMAIN b) |-> IF x \in DOMAIN b THEN b[x] ELSE a[x]]

RECURSIVE GetLblInfoFrom(_, _, _)
RECURSIVE MergeItems(_, _, _)

\* for key in target.keys(): merge get_lbl_info(lbl_file_info[key], target[key])
MergeItems(info, items, results) ==
    IF items = <<>> THEN Ok(results)
    ELSE LET key == Head(items)[1]
             nested == Head(items)[2]
             sub == Subscript(info, key)
         IN  IF sub.err # "" THEN Raise(sub.err)
             ELSE LET r == GetLblInfoFrom(sub.res, nested, EmptyDict)
                  IN  IF r.err # "" THEN r
                      ELSE MergeItems(info, Tail(items), Merge(results, r.res))

\* the loop of get_lbl_info from the targets still to visit
GetLblInfoFrom(info, targets, results) ==
    IF targets = <<>> THEN Ok(results)
    ELSE LET target == Head(targets)
         IN  IF IsDictTarget(target)
             THEN LET r == MergeItems(info, target.v, results)
                  IN  IF r.err # "" THEN r
                      ELSE GetLblInfoFrom(info, Tail(targets), r.res)
             ELSE LET sub == Subscript(info, target.v)
                  IN  IF sub.err # "" THEN Raise(sub.err)
                      ELSE GetLblInfoFrom(info, Tail(targets),
                                          Put(results, target.v, sub.res))

GetLblInfo(info, targets) == GetLblInfoFrom(info, targets, EmptyDict)

LblReturn ==
    LET r == GetLblInfo(lbl_file_info, target_info) IN
    /\ lblStatus = "called"
    /\ r.err = ""
    /\ target_results' = r.res
    /\ lblStatus' = "returned"
    /\ UNCHANGED <<lbl_file_info, target_info>>

LblRaise ==
    LET r == GetLblInfo(lbl_file_info, target_info) IN
    /\ lblStatus = "called"
    /\ r.err # ""
    /\ lblStatus' = r.err
    /\ UNCHANGED <<lbl_file_info, target_info, target_results>>


(* ---------------------------------------------------------------------- *)
(* get_col_info, from the value parse_structured_file returned under       *)
(* 'COLUMN'                                                                *)
(* ---------------------------------------------------------------------- *)
VARIABLES
    column_definitions,     \* parse_structured_file(fmt_file)['COLUMN']
    target_col_names,
    col_info_tuple_list,    \* what get_col_info returned
    colStatus,              \* "called", "returned", "written" or the exception raised
    header,                 \* the header row of the results file
    cells                   \* the data row written to the results file

colVars == <<column_definitions, target_col_names, col_info_tuple_list, colStatus,
             header, cells>>

COL_TUPLE_NUM_INDEX == 0
COL_TUPLE_NAME_INDEX == 1
COL_TUPLE_TYPE_INDEX == 2

KeyNAME == <<"NAME">>
KeyNUMBER == <<"COLUMN_NUMBER">>
KeyTYPE == <<"DATA_TYPE">>

Quoted(c) == <<"\"", c, "\"">>

ColumnDef(name, number, type) ==
    Dict((KeyNAME :> Str(name)) @@ (KeyNUMBER :> S(number)) @@ (KeyTYPE :> S(type)))

ColumnDefs == {
    ColumnDef(Quoted("A"), "1", "ASCII_REAL"),
    ColumnDef(Quoted("B"), "2", "ASCII_INTEGER"),
    ColumnDef(Quoted("C"), "3", "ASCII_REAL"),
    ColumnDef(Quoted("A"), "4", "ASCII_INTEGER"),
    ColumnDef(Quoted("D"), "5", "CHARACTER")
}

TargetColNames == {Quoted("A"), Quoted("B"), Quoted("C"), Quoted("E")}

\* a row of a tabular file, one cell per column number; a cell holds ten
\* plus its column number, or UNK
TabRows == {
    <<<<"1", "1">>, <<" ", "1", "2">>, <<"1", "3">>, <<"1", "4">>, <<"1", "5">>>>,
    <<<<"U", "N", "K">>, <<"1", "2">>, <<"1", "3", " ">>, <<" ", "U", "N", "K">>, <<"1", "5">>>>
}

\* the label fields of the sol, as (key, value) pairs sorted by key
LblInfos == {<<>>, << <<<<"SOLAR_LONGITUDE">>, <<"1", "3", "7">>>> >>}

ColStart ==
    /\ col_info_tuple_list = <<>>
    /\ header = <<>>
    /\ cells = <<>>

ColInit ==
    /\ column_definitions \in
           {List(q) : q \in SeqsUpTo(ColumnDefs, MaxColumns)} \cup ColumnDefs
    /\ target_col_names \in SeqsUpTo(TargetColNames, MaxTargetCols)
    /\ colStatus = "called"
    /\ ColStart

ColIdle ==
    /\ column_definitions = List(<<>>)
    /\ target_col_names = <<>>
    /\ colStatus = "idle"
    /\ ColStart

Digits == ("0" :> 0) @@ ("1" :> 1) @@ ("2" :> 2) @@ ("3" :> 3) @@ ("4" :> 4)
          @@ ("5" :> 5) @@ ("6" :> 6) @@ ("7" :> 7) @@ ("8" :> 8) @@ ("9" :> 9)

\* int(s) for a str of decimal digits
RECURSIVE IntOf(_)
IntOf(s) ==
    IF Len(s) = 1 THEN Digits[s[1]]
    ELSE 10 * IntOf(SubSeq(s, 1, Len(s) - 1)) + Digits[s[Len(s)]]

\* the tuple appended for a column definition, or the KeyError of a data
\* type the table lacks
ColTuple(column_definition) ==
    LET d == column_definition.v IN
    IF d[KeyTYPE].v \notin DOMAIN COL_DATA_TYPE_TO_PYTHON_TYPE THEN Raise("KeyError")
    ELSE Ok(<< <<IntOf(d[KeyNUMBER].v),
                 StripChars(d[KeyNAME].v, {"\""}),
                 COL_DATA_TYPE_TO_PYTHON_TYPE[d[KeyTYPE].v]>> >>)

\* the inner loop: one tuple for every target name equal to the NAME
RECURSIVE MatchTargets(_, _, _)
MatchTargets(column_definition, names, tuples) ==
    IF names = <<>> THEN Ok(tuples)
    ELSE IF column_definition.v[KeyNAME].v = Head(names)
         THEN LET r == ColTuple(column_definition)
              IN  IF r.err # "" THEN r
                  ELSE MatchTargets(column_definition, Tail(names), tuples \o r.res)
         ELSE MatchTargets(column_definition, Tail(names), tuples)

\* the column definitions visited from the last to the first
RECURSIVE ColLoopBackwards(_, _, _)
ColLoopBackwards(definitions, names, tuples) ==
    IF definitions = <<>> THEN Ok(tuples)
    ELSE LET column_definition == definitions[Len(definitions)]
         IN  IF column_definition.t # "dict" THEN Raise("AssertionError")
             ELSE LET r == IF names # <<>>
                           THEN MatchTargets(column_definition, names, tuples)
                           ELSE LET c == ColTuple(column_definition)
                                IN  IF c.err # "" THEN c ELSE Ok(tuples \o c.res)
                  IN  IF r.err # "" THEN r
                      ELSE ColLoopBackwards(SubSeq(definitions, 1, Len(definitions) - 1),
                                            names, r.res)

\* the outer loop, from the column definitions still to visit
RECURSIVE ColLoop(_, _, _)
ColLoop(definitions, names, tuples) ==
    IF definitions = <<>> THEN Ok(tuples)
    ELSE LET column_definition == Head(definitions)
         IN  IF column_definition.t # "dict" THEN Raise("AssertionError")
             ELSE LET r == IF names # <<>>
                           THEN MatchTargets(column_definition, names, tuples)
                           ELSE LET c == ColTuple(column_definition)
                                IN  IF c.err # "" THEN c ELSE Ok(tuples \o c.res)
                  IN  IF r.err # "" THEN r
                      ELSE ColLoop(Tail(definitions), names, r.res)

\* assert not target_col_names or (len(target_col_names) == len(col_info_tuple_list))
AllFound(names, tuples) == names = <<>> \/ Len(names) = Len(tuples)

GetColInfo(definitions, names) ==
    IF ~(definitions.t = "list" /\ definitions.v # <<>>) THEN Raise("AssertionError")
    ELSE LET r == ColLoop(definitions.v, names, <<>>)
         IN  IF r.err # "" THEN r
             ELSE IF ~AllFound(names, r.res) THEN Raise("AssertionError")
             ELSE r

ColReturn ==
    LET r == GetColInfo(column_definitions, target_col_names) IN
    /\ colStatus = "called"
    /\ r.err = ""
    /\ col_info_tuple_list' = r.res
    /\ colStatus' = "returned"
    /\ UNCHANGED <<column_definitions, target_col_names, header, cells>>

ColRaise ==
    LET r == GetColInfo(column_definitions, target_col_names) IN
    /\ colStatus = "called"
    /\ r.err # ""
    /\ colStatus' = r.err
    /\ UNCHANGED <<column_definitions, target_col_names, col_info_tuple_list,
                   header, cells>>

\* a python value of one of the column types, or None
PyNumber(type, n) == [py |-> type, n |-> n]
PyNone == [py |-> "None", n |-> 0]

\* extract_formatted_col_value
ExtractFormattedColValue(row, col_info_tuple) ==
    LET raw_value == Strip(row[col_info_tuple[COL_TUPLE_NUM_INDEX + 1] - 1 + 1])
    IN  IF raw_value = <<"U", "N", "K">> THEN PyNone
        ELSE PyNumber(col_info_tuple[COL_TUPLE_TYPE_INDEX + 1], IntOf(raw_value))

\* the header row main writes and the first row compose_custom_rows writes
ColWriteRow(row, lbl_info) ==
    /\ colStatus = "returned"
    /\ header' = [i \in 1..Len(col_info_tuple_list) |->
                      col_info_tuple_list[i][COL_TUPLE_NAME_INDEX + 1]]
                  \o [i \in 1..Len(lbl_info) |-> lbl_info[i][1]]
    /\ cells' = [i \in 1..Len(col_info_tuple_list) |->
                     ExtractFormattedColValue(row, col_info_tuple_list[i])]
                 \o [i \in 1..Len(lbl_info) |-> Str(lbl_info[i][2])]
    /\ colStatus' = "written"
    /\ UNCHANGED <<column_definitions, target_col_names, col_info_tuple_list>>


(* ---------------------------------------------------------------------- *)
(* Specifications                                                          *)
(* ---------------------------------------------------------------------- *)
vars == <<parserVars, runVars, lblVars, colVars>>

Init == ParserInit /\ RunIdle /\ LblIdle /\ ColIdle

Next ==
    \/ \E line \in ValueLines : ObjMultiline(line) /\ UNCHANGED <<runVars, lblVars, colVars>>
    \/ \E line \in ValueLines : ObjEnd(line) /\ UNCHANGED <<runVars, lblVars, colVars>>
    \/ \E line \in ValueLines : ObjKeyValue(line) /\ UNCHANGED <<runVars, lblVars, colVars>>
    \/ \E line \in ValueLines : TopMultiline(line) /\ UNCHANGED <<runVars, lblVars, colVars>>
    \/ \E line \in ValueLines : TopKeyValue(line) /\ UNCHANGED <<runVars, lblVars, colVars>>
    \/ \E line \in ValueLines : TopIgnore(line) /\ UNCHANGED <<runVars, lblVars, colVars>>
    \/ Return /\ UNCHANGED <<runVars, lblVars, colVars>>

Spec == Init /\ [][Next]_vars

InitRun == RunInit /\ ParserIdle /\ LblIdle /\ ColIdle

NextRun ==
    \/ MainNextFile /\ UNCHANGED <<parserVars, lblVars, colVars>>
    \/ MainEnd /\ UNCHANGED <<parserVars, lblVars, colVars>>
    \/ ComposeRow /\ UNCHANGED <<parserVars, lblVars, colVars>>
    \/ ComposeStop /\ UNCHANGED <<parserVars, lblVars, colVars>>
    \/ ComposeEnd /\ UNCHANGED <<parserVars, lblVars, colVars>>

SpecRun == InitRun /\ [][NextRun]_vars

InitLbl == LblInit /\ ParserIdle /\ RunIdle /\ ColIdle

NextLbl ==
    \/ LblReturn /\ UNCHANGED <<parserVars, runVars, colVars>>
    \/ LblRaise /\ UNCHANGED <<parserVars, runVars, colVars>>

SpecLbl == InitLbl /\ [][NextLbl]_vars

InitCol == ColInit /\ ParserIdle /\ RunIdle /\ LblIdle

NextCol ==
    \/ ColReturn /\ UNCHANGED <<parserVars, runVars, lblVars>>
    \/ ColRaise /\ UNCHANGED <<parserVars, runVars, lblVars>>
    \/ \E row \in TabRows, lbl_info \in LblInfos :
           ColWriteRow(row, lbl_info) /\ UNCHANGED <<parserVars, runVars, lblVars>>

SpecCol == InitCol /\ [][NextCol]_vars

(* ---------------------------------------------------------------------- *)
(* Properties of parse_structured_file                                     *)
(* ---------------------------------------------------------------------- *)
KeyK == <<"K">>
KeyA == <<"A">>

\* the last line closed a multi-line value
JustClosed == prev.multi /\ ~in_multiline

\* the text of a trimmed line before and after its first separator
BeforeSep(clean) == SubSeq(clean, 1, Find(clean, SEP) - 1)
AfterSep(clean) == SubSeq(clean, Find(clean, SEP) + Len(SEP), Len(clean))

Openers == {"\"", "("}
Closer(c) == IF c = "\"" THEN "\"" ELSE ")"

\* a value that starts a multi-line value, as the notation defines it
StartsMultiline(value) ==
    /\ value # <<>>
    /\ value[1] \in Openers
    /\ (Len(value) = 1 \/ value[Len(value)] # Closer(value[1]))

\* C1: when k >= 1 sections have closed under a key that no flat line
\* uses, the document maps the key to the one section's mapping if k = 1
\* and to the list of the k mappings, in file order, if k >= 2.
C1_SiblingSections ==
    \A k \in DOMAIN closed :
        k \notin flat =>
            /\ k \in DOMAIN structured_file_info
            /\ structured_file_info[k] =
                   IF Len(closed[k]) = 1
                   THEN Dict(closed[k][1])
                   ELSE List([i \in 1..Len(closed[k]) |-> Dict(closed[k][i])])

C1_Witness ==
    /\ status = "returned"
    /\ KeyK \in DOMAIN closed /\ KeyK \notin flat
    /\ Len(closed[KeyK]) = 3
    /\ closed[KeyK][1] # closed[KeyK][2]
    /\ structured_file_info[KeyK].t = "list"
    /\ Len(structured_file_info[KeyK].v) = 3

\* C2: the value stored when a multi-line value closes is the opening
\* value followed by every later stripped line up to and including the
\* closing one, in order, with nothing in between; it starts with the
\* opening delimiter and ends with the matching closing delimiter.
C2_MultilineConcat ==
    JustClosed =>
        LET scope == IF prev.building THEN current_obj ELSE structured_file_info
            body == [i \in 1..Len(mlBody) |-> Strip(mlBody[i])]
            v == scope[multiline_key].v
        IN  /\ multiline_key \in DOMAIN scope
            /\ scope[multiline_key] = Str(mlOpen \o Concat(body))
            /\ Len(mlBody) >= 1
            /\ v[1] \in Openers
            /\ v[Len(v)] = Closer(v[1])

C2_Witness ==
    /\ JustClosed
    /\ Len(mlBody) = 2
    /\ structured_file_info[KeyA] = Str(<<"\"", "x", "z", "y", "\"">>)

\* a line that is one single-line key/value line: one separator, a key
\* that opens no section, a value that opens no multi-line value
WellFormedSingle(line) ==
    LET clean == Strip(line) IN
    /\ Contains(clean, SEP)
    /\ ~Contains(AfterSep(clean), SEP)
    /\ Strip(BeforeSep(clean)) # <<>>
    /\ Strip(BeforeSep(clean)) \notin OBJ_TOKENS
    /\ Strip(AfterSep(clean)) # <<>>
    /\ ~StartsMultiline(Strip(AfterSep(clean)))

\* C3: a file of one well-formed single-line KEY = VALUE line parses to
\* the document with exactly the entry KEY -> VALUE, the value without
\* surrounding whitespace or newline.
C3_SingleLine ==
    (status = "returned" /\ nread = 1 /\ WellFormedSingle(lastLine)) =>
        LET clean == Strip(lastLine)
            value == Strip(AfterSep(clean))
        IN  /\ DOMAIN structured_file_info = {Strip(BeforeSep(clean))}
            /\ structured_file_info[Strip(BeforeSep(clean))] = Str(value)
            /\ value[1] \notin Whitespace
            /\ value[Len(value)] \notin Whitespace

C3_Witness ==
    /\ status = "returned" /\ nread = 1
    /\ lastLine = <<" ", "A", " ", " ", "=", " ", " ", "1", " ", "\n">>
    /\ DOMAIN structured_file_info = {KeyA}
    /\ structured_file_info[KeyA] = Str(<<"1">>)

\* C4: a multi-line value is committed in the scope where it was opened:
\* one opened inside a section lands in the section's mapping and leaves
\* the top-level map as it was, one opened at top level lands in the
\* top-level map and leaves the section mapping as it was; the scope does
\* not change while the value is accumulated.
C4_CommitScope ==
    /\ in_multiline => (building_obj <=> mlScope = "obj")
    /\ JustClosed =>
           IF mlScope = "obj"
           THEN /\ building_obj
                /\ multiline_key \in DOMAIN current_obj
                /\ current_obj[multiline_key] = Str(multiline_value)
                /\ structured_file_info = prev.info
           ELSE /\ ~building_obj
                /\ multiline_key \in DOMAIN structured_file_info
                /\ structured_file_info[multiline_key] = Str(multiline_value)
                /\ current_obj = prev.obj

C4_Witness ==
    /\ JustClosed
    /\ mlScope = "obj"
    /\ Len(mlBody) = 2
    /\ current_obj[KeyA] = Str(<<"\"", "x">> \o <<"END_", "OBJECT">> \o <<"y", "\"">>)
    /\ KeyA \notin DOMAIN structured_file_info

\* C5: the parse does not return a document when the input ends inside a
\* grouping section or inside a multi-line value.
C5_MissingEndToken ==
    status = "returned" => (~building_obj /\ ~in_multiline)

\* the value side of a trimmed line: the text between its first separator
\* and the next one (or the end), trimmed; nothing when it has no separator
ValueSide(clean) ==
    IF ~Contains(clean, SEP) THEN <<>>
    ELSE LET rest == AfterSep(clean)
         IN  Strip(IF Contains(rest, SEP) THEN BeforeSep(rest) ELSE rest)

\* the last line was read as a plain key/value line: outside a multi-line
\* value, at top level with a separator and a key that opens no section,
\* or inside a section and not its END line
ReadAsKeyValue ==
    LET clean == Strip(lastLine) IN
    /\ nread > 0 /\ ~prev.multi
    /\ IF prev.building
       THEN ~StartsWith(clean, <<"END_">> \o prev.token)
       ELSE Contains(clean, SEP) /\ Strip(BeforeSep(clean)) \notin OBJ_TOKENS

RECURSIVE Sum(_)
Sum(q) == IF q = <<>> THEN 0 ELSE Head(q) + Sum(Tail(q))

Least(a, b) == IF a <= b THEN a ELSE b

\* C7: with a positive maximum N and T data rows in all, the run writes
\* min(N, T) data rows, never more than N, and opens no tabular file once
\* the N-th row has been written.
C7_RowLimit ==
    maxRowCount > 0 =>
        /\ written <= maxRowCount
        /\ (runpc = "done" => written = Least(maxRowCount, Sum(tabFiles)))
        /\ (fileIdx > 0 => writtenAtOpen < maxRowCount)

C7_Witness ==
    /\ runpc = "done"
    /\ maxRowCount = 3
    /\ tabFiles = <<2, 2, 2>>
    /\ written = 3
    /\ fileIdx = 2

\* C8: every maximum row count <= 0 means unlimited: the run writes every
\* data row of every tabular file.
C8_NonPositiveUnlimited ==
    (maxRowCount <= 0 /\ runpc = "done") =>
        (written = Sum(tabFiles) /\ fileIdx = Len(tabFiles))

\* C8 as amended: every negative maximum row count means unlimited, the
\* run never stops because of the limit; a maximum of 0 is a limit of
\* no row at all.
C8_NegativeUnlimited ==
    /\ maxRowCount < 0 =>
           /\ remaining_row_count = maxRowCount
           /\ (runpc = "done" => (written = Sum(tabFiles) /\ fileIdx = Len(tabFiles)))
    /\ maxRowCount = 0 => written = 0

C8_Witness ==
    /\ runpc = "done"
    /\ maxRowCount = DEFAULT_MAX_ROW_COUNT
    /\ tabFiles = <<2, 0, 2>>
    /\ written = 4
    /\ fileIdx = 3

(* ---------------------------------------------------------------------- *)
(* Properties of get_lbl_info                                              *)
(* ---------------------------------------------------------------------- *)
RECURSIVE LeafPaths(_)
RECURSIVE ItemLeafPaths(_)
RECURSIVE KeyPaths(_)
RECURSIVE ItemKeyPaths(_)

Prefixed(key, paths) == [i \in 1..Len(paths) |-> <<key>> \o paths[i]]

\* the paths of the leaves a target spec selects, in spec order
LeafPaths(spec) ==
    IF spec = <<>> THEN <<>>
    ELSE (IF IsDictTarget(Head(spec)) THEN ItemLeafPaths(Head(spec).v)
          ELSE << <<Head(spec).v>> >>) \o LeafPaths(Tail(spec))

ItemLeafPaths(items) ==
    IF items = <<>> THEN <<>>
    ELSE Prefixed(Head(items)[1], LeafPaths(Head(items)[2])) \o ItemLeafPaths(Tail(items))

\* the paths of the sections a target spec names
KeyPaths(spec) ==
    IF spec = <<>> THEN <<>>
    ELSE (IF IsDictTarget(Head(spec)) THEN ItemKeyPaths(Head(spec).v) ELSE <<>>)
         \o KeyPaths(Tail(spec))

ItemKeyPaths(items) ==
    IF items = <<>> THEN <<>>
    ELSE << <<Head(items)[1]>> >> \o Prefixed(Head(items)[1], KeyPaths(Head(items)[2]))
         \o ItemKeyPaths(Tail(items))

Absent == [t |-> "absent", v |-> <<>>]

\* the value a path leads to in a document
RECURSIVE ValueAt(_, _)
ValueAt(info, path) ==
    IF path = <<>> THEN info
    ELSE IF info.t = "dict" /\ Head(path) \in DOMAIN info.v
         THEN ValueAt(info.v[Head(path)], Tail(path))
         ELSE Absent

PathsExist(info, spec) ==
    LET paths == LeafPaths(spec) \o KeyPaths(spec)
    IN  \A i \in 1..Len(paths) : ValueAt(info, paths[i]).t # "absent"

LeafName(path) == path[Len(path)]

\* C9: when every path of the target spec exists in the document,
\* get_lbl_info returns a flat mapping whose keys are exactly the leaf
\* names of the spec, at any depth, each mapped to the value at its path;
\* of two paths with the same leaf name the later in spec order decides.
C9_FlatLeaves ==
    (lblStatus # "called" /\ lblStatus # "idle"
        /\ PathsExist(lbl_file_info, target_info)) =>
        LET paths == LeafPaths(target_info)
            lastOf(name) == CHOOSE i \in 1..Len(paths) :
                                /\ LeafName(paths[i]) = name
                                /\ \A j \in 1..Len(paths) :
                                       LeafName(paths[j]) = name => j <= i
        IN  /\ lblStatus = "returned"
            /\ DOMAIN target_results = {LeafName(paths[i]) : i \in 1..Len(paths)}
            /\ \A name \in DOMAIN target_results :
                   target_results[name] = ValueAt(lbl_file_info, paths[lastOf(name)])

C9_Witness ==
    /\ lblStatus = "returned"
    /\ target_info = <<Under(NameG, <<LeafX, Under(NameH, <<LeafX, LeafV>>)>>), LeafY>>
    /\ target_results = (NameX :> S("5")) @@ (NameV :> S("6")) @@ (NameY :> S("2"))

(* ---------------------------------------------------------------------- *)
(* Properties of get_col_info                                              *)
(* ---------------------------------------------------------------------- *)
\* the requested names that no column definition carries as its NAME
Unmatched(definitions, names) ==
    {i \in 1..Len(names) :
        \A j \in 1..Len(definitions.v) :
            definitions.v[j].v[KeyNAME].v # names[i]}

\* C10: when a requested target column name matches no column
\* definition's NAME, get_col_info fails; it returns no column list.
C10_MissingNameFails ==
    (colStatus # "called" /\ colStatus # "idle"
        /\ column_definitions.t = "list"
        /\ target_col_names # <<>>
        /\ Unmatched(column_definitions, target_col_names) # {}) =>
        colStatus # "returned"

\* the (definition, requested name) index pairs whose names are equal
MatchPairs ==
    {p \in (1..Len(column_definitions.v)) \X (1..Len(target_col_names)) :
        column_definitions.v[p[1]].v[KeyNAME].v = target_col_names[p[2]]}

\* the rank of a pair when the pairs are put in file order, and within
\* one definition in request order
RankOf(p) ==
    1 + Cardinality({q \in MatchPairs :
                        q[1] < p[1] \/ (q[1] = p[1] /\ q[2] < p[2])})

Unquoted(name) == StripChars(name, {"\""})

\* C11: for a non-empty list of requested names, the i-th tuple that
\* get_col_info returns, and so the i-th header cell and data cell,
\* corresponds to the i-th requested name, whatever the order of the
\* column definitions.
C11_RequestOrder ==
    (colStatus \in {"returned", "written"} /\ target_col_names # <<>>) =>
        /\ Len(col_info_tuple_list) = Len(target_col_names)
        /\ \A i \in 1..Len(target_col_names) :
               col_info_tuple_list[i][COL_TUPLE_NAME_INDEX + 1]
                   = Unquoted(target_col_names[i])

\* C11 as amended: the tuples follow the order of the column definitions
\* in the format file, and within one definition the order of the
\* requested names equal to its NAME; the header cells and the data cells
\* of a row follow the tuples.
C11_DefinitionOrder ==
    (colStatus \in {"returned", "written"} /\ target_col_names # <<>>) =>
        /\ Len(col_info_tuple_list) = Cardinality(MatchPairs)
        /\ \A p \in MatchPairs :
               LET d == column_definitions.v[p[1]].v
                   tuple == col_info_tuple_list[RankOf(p)]
               IN  /\ tuple[COL_TUPLE_NAME_INDEX + 1] = Unquoted(target_col_names[p[2]])
                   /\ tuple[COL_TUPLE_NUM_INDEX + 1] = IntOf(d[KeyNUMBER].v)
                   /\ colStatus = "written" =>
                          /\ header[RankOf(p)] = Unquoted(d[KeyNAME].v)
                          /\ cells[RankOf(p)].py \in
                                 {"None", COL_DATA_TYPE_TO_PYTHON_TYPE[d[KeyTYPE].v]}
                          /\ cells[RankOf(p)].py # "None" =>
                                 cells[RankOf(p)].n = 10 + IntOf(d[KeyNUMBER].v)

C11_Witness ==
    /\ colStatus = "written"
    /\ target_col_names = <<Quoted("B"), Quoted("A")>>
    /\ header = <<<<"A">>, <<"B">>>>
    /\ cells = <<PyNumber("float", 11), PyNumber("int", 12)>>

(* ---------------------------------------------------------------------- *)
(* Further properties of parse_structured_file                             *)
(* ---------------------------------------------------------------------- *)
\* a line of the shape that opens a section: its key is OBJECT or GROUP
IsOpening(line) ==
    LET clean == Strip(line) IN
    Contains(clean, SEP) /\ Strip(BeforeSep(clean)) \in OBJ_TOKENS

\* C12: a section-opening line read while a section is open, outside a
\* multi-line value, makes the parse fail: the parser does not go on
\* reading and does not return a document.
C12_NestedRejected ==
    (nread > 0 /\ prev.building /\ ~prev.multi /\ IsOpening(lastLine)) =>
        status \notin {"reading", "returned"}

IsScalar(v) == v.t = "str"

IsSectionMapping(v) ==
    v.t = "dict" /\ \A a \in DOMAIN v.v : IsScalar(v.v[a])

\* C13: every top-level value of the document under construction is a
\* scalar, a section mapping of scalars, or a list of section mappings,
\* and a key holds a list only when a section closed under it at least
\* twice.
C13_Shape ==
    \A k \in DOMAIN structured_file_info :
        LET v == structured_file_info[k] IN
        \/ IsScalar(v)
        \/ IsSectionMapping(v)
        \/ /\ v.t = "list"
           /\ \A i \in 1..Len(v.v) : IsSectionMapping(v.v[i])
           /\ k \in DOMAIN closed
           /\ Len(closed[k]) >= 2

\* C14: a plain key/value line is split at the first separator: the key
\* is the text before it and the value the whole trimmed text after it,
\* so the line is stored, or opens a multi-line value, with that value.
C14_FirstSeparator ==
    (ReadAsKeyValue /\ Contains(Strip(lastLine), SEP)) =>
        LET clean == Strip(lastLine)
            key == Strip(BeforeSep(clean))
            value == Strip(AfterSep(clean))
            scope == IF prev.building THEN current_obj ELSE structured_file_info
        IN  value # <<>> =>
                /\ status # "IndexError"
                /\ IF in_multiline
                   THEN multiline_key = key /\ multiline_value = value
                   ELSE key \in DOMAIN scope /\ scope[key] = Str(value)

\* C15: a plain key/value line starts a multi-line value if and only if
\* its trimmed value, the text after the first separator, starts with an
\* opening delimiter and is one character long or does not end with the
\* matching closing delimiter; the remembered closing delimiter is the
\* one paired with that opening delimiter; otherwise the value is stored.
C15_MultilineStart ==
    (ReadAsKeyValue /\ Contains(Strip(lastLine), SEP) /\ status # "IndexError") =>
        LET clean == Strip(lastLine)
            key == Strip(BeforeSep(clean))
            value == Strip(AfterSep(clean))
            scope == IF prev.building THEN current_obj ELSE structured_file_info
        IN  /\ in_multiline <=> StartsMultiline(value)
            /\ in_multiline => multiline_end_token = Closer(value[1])
            /\ ~in_multiline => (key \in DOMAIN scope /\ IsScalar(scope[key]))

\* the line, stripped, is not empty and ends with the closing delimiter
ClosesWith(line, closer) ==
    LET clean == Strip(line) IN clean # <<>> /\ clean[Len(clean)] = closer

\* C16: a multi-line value ends on the first line after its opening line
\* whose stripped text is not empty and ends with the closing delimiter
\* remembered at its start; no earlier line of its body does, and while
\* the value is open no line read for it did.
C16_MultilineEnd ==
    /\ (nread > 0 /\ prev.multi) =>
           (in_multiline <=> ~ClosesWith(lastLine, prev.mend))
    /\ in_multiline =>
           /\ multiline_end_token = Closer(mlOpen[1])
           /\ \A i \in 1..Len(mlBody) : ~ClosesWith(mlBody[i], multiline_end_token)
    /\ JustClosed =>
           /\ multiline_end_token = Closer(mlOpen[1])
           /\ Len(mlBody) >= 1
           /\ ClosesWith(mlBody[Len(mlBody)], multiline_end_token)
           /\ \A i \in 1..(Len(mlBody) - 1) :
                  ~ClosesWith(mlBody[i], multiline_end_token)

C16_Witness ==
    /\ JustClosed
    /\ mlOpen = <<"\"", "x">>
    /\ mlBody = << <<"\n">>, <<"y", ")", "\n">>, <<"y", "\"", "\n">> >>
    /\ structured_file_info[KeyA] = Str(<<"\"", "x", "y", ")", "y", "\"">>)

\* C17: a line without the separator read at top level outside a
\* multi-line value leaves the document and the parser's state as they
\* were; read inside an open section, outside a multi-line value and not
\* the section's END line, it makes the parse fail.
C17_IgnoredAtTopOnly ==
    (nread > 0 /\ ~prev.multi /\ ~Contains(Strip(lastLine), SEP)) =>
        IF prev.building
        THEN ~StartsWith(Strip(lastLine), <<"END_">> \o prev.token) =>
                 status = "IndexError"
        ELSE status # "IndexError" /\ Snapshot = prev

C17_Witness ==
    /\ nread = 3
    /\ prev.building /\ ~prev.multi
    /\ prev.obj # EmptyDict
    /\ lastLine = <<"\n">>
    /\ status = "IndexError"

\* the trimmed line starts with END_ and a section token
IsEndLine(line) ==
    \E token \in OBJ_TOKENS : StartsWith(Strip(line), <<"END_">> \o token)

\* C18: a section is closed only by a line read while it is open, outside
\* a multi-line value, whose trimmed text starts with END_ and the token
\* that opened it; an END_ line read at top level closes nothing and
\* leaves the document as it was.
C18_ClosedOnlyByEnd ==
    nread > 0 =>
        /\ (prev.building /\ ~building_obj) =>
               /\ ~prev.multi
               /\ StartsWith(Strip(lastLine), <<"END_">> \o prev.token)
        /\ structured_file_info # prev.info /\ prev.building /\ ~prev.multi =>
               StartsWith(Strip(lastLine), <<"END_">> \o prev.token)
        /\ (~prev.building /\ ~prev.multi /\ IsEndLine(lastLine)) =>
               /\ structured_file_info = prev.info
               /\ ~building_obj

\* what a scope holds after key is given a scalar value
Overwritten(scopeBefore, scopeAfter, key, value) ==
    /\ DOMAIN scopeAfter = DOMAIN scopeBefore \cup {key}
    /\ scopeAfter[key] = Str(value)
    /\ \A k \in DOMAIN scopeBefore \ {key} : scopeAfter[k] = scopeBefore[k]

\* C19: a flat key/value line, single-line or multi-line, gives its key
\* the scalar value in its scope whatever the key held before, a scalar,
\* a section mapping or a list, and leaves every other entry as it was;
\* it never makes or extends a list.
C19_FlatOverwrites ==
    LET before == IF prev.building THEN prev.obj ELSE prev.info
        after == IF prev.building THEN current_obj ELSE structured_file_info
    IN  /\ (ReadAsKeyValue /\ status # "IndexError" /\ ~in_multiline) =>
               Overwritten(before, after, Strip(BeforeSep(Strip(lastLine))),
                           ValueSide(Strip(lastLine)))
        /\ JustClosed =>
               Overwritten(before, after, multiline_key, multiline_value)

C19_Witness ==
    /\ ReadAsKeyValue /\ ~prev.building
    /\ KeyK \in DOMAIN prev.info
    /\ prev.info[KeyK].t = "list"
    /\ lastLine = <<"K", " ", "=", " ", "2", "\n">>
    /\ structured_file_info[KeyK] = Str(<<"2">>)

\* C20: a line read while a multi-line value is accumulated is only
\* appended to the value: the section's open status, token and key and
\* the multi-line key and closing delimiter stay as they were, and the
\* document and the section mapping stay as they were unless the line
\* closes the value, which then changes only the multi-line key's entry
\* in the scope where the value was opened.
C20_AccumulationFrame ==
    (nread > 0 /\ prev.multi) =>
        /\ status # "IndexError"
        /\ building_obj = prev.building
        /\ obj_token = prev.token
        /\ obj_key = prev.key
        /\ multiline_key = prev.mkey
        /\ multiline_end_token = prev.mend
        /\ multiline_value = prev.mvalue \o Strip(lastLine)
        /\ IF in_multiline
           THEN structured_file_info = prev.info /\ current_obj = prev.obj
           ELSE IF prev.building
                THEN /\ structured_file_info = prev.info
                     /\ current_obj = Put(prev.obj, multiline_key, Str(multiline_value))
                ELSE /\ current_obj = prev.obj
                     /\ structured_file_info =
                            Put(prev.info, multiline_key, Str(multiline_value))

C20_Witness ==
    /\ prev.multi /\ in_multiline
    /\ building_obj /\ obj_key = KeyK
    /\ lastLine = <<"END_", "OBJECT", "\n">>
    /\ mlBody = << <<"OBJECT", " ", "=", " ", "K", "\n">>, <<"END_", "OBJECT", "\n">> >>
    /\ current_obj = EmptyDict
    /\ structured_file_info = EmptyDict

====
